---- MODULE Spec2Model ----
(***************************************************************************)
(* The interactive agent REPL of packages/wdio-cli/src/commands/agent.ts:  *)
(* handler(), its readline 'line' and 'close' listeners, the process-wide  *)
(* 'unhandledRejection' listener, the spinner and the result formatter.    *)
(*                                                                         *)
(* One action is one turn of the Node event loop: a listener (or the       *)
(* continuation of an async function after an await) runs to its next      *)
(* await or to its end without interleaving.                               *)
(***************************************************************************)
EXTENDS Integers, Sequences, FiniteSets, TLC

(***************************************************************************)
(* Bounds of the model.                                                    *)
(***************************************************************************)
\* lines the input stream delivers in one run
MaxLines == 3
\* rejections that escape every promise chain in one run
MaxRejections == 2
\* lines delivered in a run that probes the classifier with the wide alphabet
MaxProbeLines == 1
\* steps of a result handed to formatResult
MaxSteps == 2
\* action results of one step, and actions of the legacy list
MaxActions == 2

(***************************************************************************)
(* Strings.  TLC treats a string as the sequence of its characters for     *)
(* Len, SubSeq, Tail and \o.                                               *)
(***************************************************************************)
CharAt(s, i) == SubSeq(s, i, i)

IsSpace(c) == c \in {" ", "\t"}

RECURSIVE TrimStart(_)
TrimStart(s) ==
    IF Len(s) > 0 /\ IsSpace(CharAt(s, 1)) THEN TrimStart(Tail(s)) ELSE s

RECURSIVE TrimEnd(_)
TrimEnd(s) ==
    IF Len(s) > 0 /\ IsSpace(CharAt(s, Len(s)))
    THEN TrimEnd(SubSeq(s, 1, Len(s) - 1))
    ELSE s

\* String.prototype.trim
Trim(s) == TrimEnd(TrimStart(s))

\* String.prototype.startsWith
StartsWith(s, p) == Len(s) >= Len(p) /\ SubSeq(s, 1, Len(p)) = p

\* String.prototype.slice(n)
Slice(s, n) == SubSeq(s, n + 1, Len(s))

\* String.prototype.includes
Includes(s, sub) ==
    \E i \in 1..(Len(s) - Len(sub) + 1) : SubSeq(s, i, i + Len(sub) - 1) = sub

\* String.prototype.split(/\s+/): a maximal run of white space separates
\* two tokens; acc holds the finished tokens and cur the one being read.
RECURSIVE SplitFrom(_, _, _, _)
SplitFrom(s, i, cur, acc) ==
    IF i > Len(s) THEN Append(acc, cur)
    ELSE IF IsSpace(CharAt(s, i))
         THEN IF i > 1 /\ IsSpace(CharAt(s, i - 1))
              THEN SplitFrom(s, i + 1, cur, acc)
              ELSE SplitFrom(s, i + 1, "", Append(acc, cur))
         ELSE SplitFrom(s, i + 1, cur \o CharAt(s, i), acc)

SplitWs(s) == SplitFrom(s, 1, "", <<>>)

\* chalk.<style>(s): the text wrapped in the style's escape codes
Chalk(style, s) == "<" \o style \o ">" \o s \o "</" \o style \o ">"

\* A thrown or rejected value: an Error carrying a message, or any other
\* value (here a number).
ErrorOf(message) == [isError |-> TRUE, message |-> message, value |-> 0]

NonError(value) == [isError |-> FALSE, message |-> "", value |-> value]

errorMessage(err) == IF err.isError THEN err.message ELSE ToString(err.value)

(***************************************************************************)
(* The result formatter.                                                   *)
(***************************************************************************)
\* { type, target, value? }: hasValue says whether the value field is there
Action(type, target, hasValue, value) ==
    [type |-> type, target |-> target, hasValue |-> hasValue, value |-> value]

\* { action, success, error? }
ActionResult(action, success, hasError, error) ==
    [action |-> action, success |-> success, hasError |-> hasError, error |-> error]

\* JavaScript truthiness of an optional string: present and not empty
Truthy(present, s) == present /\ s # ""

formatAction(action) ==
    LET type   == Chalk("bold", action.type)
        target == Chalk("cyan", "\"" \o action.target \o "\"")
        value  == IF Truthy(action.hasValue, action.value)
                  THEN " = " \o Chalk("yellow", "\"" \o action.value \o "\"")
                  ELSE ""
    IN  type \o " " \o target \o value

formatActionResult(ar) ==
    LET icon  == IF ar.success THEN Chalk("green", "v") ELSE Chalk("red", "x")
        error == IF ~ar.success /\ Truthy(ar.hasError, ar.error)
                 THEN Chalk("red", " (" \o ar.error \o ")")
                 ELSE ""
    IN  "  " \o icon \o " " \o formatAction(ar.action) \o error

\* a step that pushes its header whatever the number of steps
StepLinesHeaderAlways(step, nSteps) ==
    << Chalk("dim", "  Step " \o ToString(step.step) \o ":") >>
    \o [k \in 1..Len(step.actions) |-> formatActionResult(step.actions[k])]

\* the lines one step pushes, given the number of steps of the result
StepLines(step, nSteps) ==
    (IF nSteps > 1
     THEN << Chalk("dim", "  Step " \o ToString(step.step) \o ":") >>
     ELSE << >>)
    \o [k \in 1..Len(step.actions) |-> formatActionResult(step.actions[k])]

RECURSIVE StepsLines(_, _, _)
StepsLines(steps, k, nSteps) ==
    IF k > Len(steps) THEN << >>
    ELSE StepLines(steps[k], nSteps) \o StepsLines(steps, k + 1, nSteps)

\* a formatter without the lines.length === 0 test
formatResultLinesNoFallback(result) ==
    LET body ==
            IF Len(result.steps) > 0
            THEN StepsLines(result.steps, 1, Len(result.steps))
            ELSE IF Len(result.actions) > 0
            THEN [k \in 1..Len(result.actions) |->
                    "  " \o Chalk("green", "v") \o " " \o formatAction(result.actions[k])]
            ELSE << >>
        summary ==
            IF result.goalAchieved
            THEN Chalk("green", "  Goal achieved in "
                                \o ToString(result.totalSteps) \o " step(s)")
            ELSE Chalk("yellow", "  Goal not confirmed ("
                                 \o ToString(result.totalSteps) \o " step(s) used)")
    IN  Append(body, summary)

\* the lines array of formatResult before it is joined
formatResultLines(result) ==
    LET body ==
            IF Len(result.steps) > 0
            THEN StepsLines(result.steps, 1, Len(result.steps))
            ELSE IF Len(result.actions) > 0
            THEN [k \in 1..Len(result.actions) |->
                    "  " \o Chalk("green", "v") \o " " \o formatAction(result.actions[k])]
            ELSE << >>
        shown ==
            IF Len(body) = 0
            THEN << Chalk("dim", "  No actions were executed") >>
            ELSE body
        summary ==
            IF result.goalAchieved
            THEN Chalk("green", "  Goal achieved in "
                                \o ToString(result.totalSteps) \o " step(s)")
            ELSE Chalk("yellow", "  Goal not confirmed ("
                                 \o ToString(result.totalSteps) \o " step(s) used)")
    IN  Append(shown, summary)

RECURSIVE Join(_, _)
Join(lines, sep) ==
    IF Len(lines) = 0 THEN ""
    ELSE IF Len(lines) = 1 THEN lines[1]
    ELSE lines[1] \o sep \o Join(Tail(lines), sep)

formatResult(result) == Join(formatResultLines(result), "\n")

(***************************************************************************)
(* The spinner: the closure state of one createSpinner() object.           *)
(***************************************************************************)
\* frames.length
FramesLen == 10

\* the frames array (its glyphs are written f0 .. f9 here)
Frames == [k \in 1..FramesLen |-> "f" \o ToString(k - 1)]

\* a write to the terminal: << call, text >>
ClearLine == << "clearLine", "" >>

CursorTo0 == << "cursorTo", "" >>

\* createSpinner(): id is the identity of the object made; timer says whether
\* its interval is live
createSpinner(id) == [id |-> id, i |-> 0, timer |-> FALSE, currentText |-> ""]

SpinnerFrame(sp) ==
    << "write", "  " \o Chalk("cyan", Frames[sp.i + 1]) \o " "
                \o Chalk("dim", sp.currentText) >>

\* start(text): the spinner afterwards, and what it wrote
SpinnerStart(sp, text) ==
    [sp EXCEPT !.currentText = text, !.timer = TRUE]

SpinnerStartWrites(sp, text) ==
    << << "write", "  " \o Chalk("cyan", Frames[1]) \o " " \o Chalk("dim", text) >> >>

\* one firing of the interval callback (it writes a frame and advances i,
\* and touches nothing of the session loop)
SpinnerTick(sp) == [sp EXCEPT !.i = (sp.i + 1) % FramesLen]

SpinnerTickWrites(sp) == << ClearLine, CursorTo0, SpinnerFrame(SpinnerTick(sp)) >>

\* stop()
SpinnerStop(sp) == [sp EXCEPT !.timer = FALSE]

SpinnerStopWrites(sp) == << ClearLine, CursorTo0 >>

(***************************************************************************)
(* The session loop.                                                       *)
(***************************************************************************)
VARIABLES
    main,           \* where handler() and the rl 'close' listener stand
    rlClosed,       \* the readline interface has been closed
    stdinEnded,     \* the input stream has ended
    listener,       \* onUnhandledRejection is registered on process
    processing,     \* let processing
    activeSpinner,  \* let activeSpinner: the id of a spinner, 0 for null
    spinners,       \* the spinner objects that are referenced or have a live interval
    pending,        \* the 'line' listener invocations suspended at their await
    written,        \* what the last turn wrote to the terminal, in order
    last,           \* the event the last turn handled
    api,            \* the calls made on process and on the session client
    exitCode,       \* the exit code of the process, -1 while it runs
    nLines,         \* lines delivered so far
    nRejections,    \* background rejections so far
    subject,        \* the value a function of the module is called with on its own
    outcome         \* the function called so and what it returned or wrote

vars == << main, rlClosed, stdinEnded, listener, processing, activeSpinner,
           spinners, pending, written, last, api, exitCode, nLines,
           nRejections, subject, outcome >>

\* the lines the input stream may deliver: one of each form
Lines ==
    { "", ".exit", ":js 1+1", ":js )", ":url", ":screenshot", "click the button" }

\* a wider alphabet: near misses of each form, and white space around them
WideLines ==
    Lines \cup
    { "  ", "\t", " .exit ", ".exit now", ".exi", ":js", ":js ", ":jsx 1", ":js\t1",
      ":js await browser.getTitle()", ":js return 1", " :url ", ":urlx", ":url x",
      ":screenshot a.png", ":screenshot  a.png b.png", ":screenshotx", ":screenshotx y.png",
      ":screensho", "exit", "go to :url" }

\* Date.now()
Clock == { 1000, 2000 }

\* what an awaited call may reject with
Errors == { ErrorOf("boom"), NonError(404) }

AgentErrors == { ErrorOf("fetch failed: request timed out"), NonError(404) }

RejectionErrors == { ErrorOf("command timed out"), NonError(404) }

InitErrors ==
    { ErrorOf("missing API key"), ErrorOf("auth timed out"),
      ErrorOf("cannot find module"), ErrorOf("fetch failed"),
      ErrorOf("invalid token"), ErrorOf("ECONNREFUSED: Timeout") }

\* what :js code may evaluate to: undefined, or a value with its printed form
JsValues == { [defined |-> FALSE, text |-> ""], [defined |-> TRUE, text |-> "2"] }

Urls == { "https://example.test/" }

ClickSubmit == Action("click", "#submit", FALSE, "")

TypeHello == Action("type", "#input", TRUE, "hello")

AgentResults ==
    { [actions |-> << >>, steps |-> << >>, goalAchieved |-> FALSE, totalSteps |-> 0],
      [actions |-> << >>,
       steps |-> << [step |-> 1,
                     actions |-> << ActionResult(ClickSubmit, TRUE, FALSE, "") >>,
                     done |-> FALSE],
                    [step |-> 2,
                     actions |-> << ActionResult(TypeHello, FALSE, TRUE, "not found") >>,
                     done |-> FALSE] >>,
       goalAchieved |-> FALSE, totalSteps |-> 2] }

\* code the Function constructor rejects with a SyntaxError
SyntaxErrors == { ")" }

Prompt == << "prompt", Chalk("bold", "agent> ") >>

NoEvent == [ev |-> "none", id |-> 0, branch |-> "", ok |-> TRUE, text |-> "",
            prompted |-> FALSE]

Event(ev, id, branch, ok, text, prompted) ==
    [ev |-> ev, id |-> id, branch |-> branch, ok |-> ok, text |-> text,
     prompted |-> prompted]

\* no function has been called on its own
NoCall == [fn |-> "none"]

\* handler() has not run
InitLoop ==
    /\ main = "init"
    /\ rlClosed = FALSE
    /\ stdinEnded = FALSE
    /\ listener = FALSE
    /\ processing = FALSE
    /\ activeSpinner = 0
    /\ spinners = { }
    /\ pending = { }
    /\ written = << >>
    /\ last = NoEvent
    /\ api = << >>
    /\ exitCode = -1
    /\ nLines = 0
    /\ nRejections = 0

Init ==
    /\ InitLoop
    /\ subject = NoCall
    /\ outcome = NoCall

\* the variables of the session loop
loopVars == << main, rlClosed, stdinEnded, listener, processing, activeSpinner,
               spinners, pending, written, last, api, exitCode, nLines,
               nRejections >>

\* the process runs and the loop has been entered
Alive == main \in { "open", "closing" }

\* rl.prompt() was called while these listeners were suspended (on a closed
\* interface rl.prompt() still writes the prompt)
MarkPrompted(ops) == { [o EXCEPT !.prompted = TRUE] : o \in ops }

HasPrompt(w) == \E k \in 1..Len(w) : w[k] = Prompt

\* a suspended invocation of the 'line' listener: its branch and what it
\* passed to the awaited call; the spinner of an agent invocation (its local
\* const spinner) is the one with the invocation's id
Op(id, branch, arg) ==
    [id |-> id, branch |-> branch, arg |-> arg, prompted |-> FALSE]

\* the spinners after s.stop() on the one named id
StopIn(set, id) == { IF s.id = id THEN SpinnerStop(s) ELSE s : s \in set }

\* a spinner no suspended listener holds and whose interval is cleared is
\* garbage
Collect(set, ops) == { s \in set : s.timer \/ \E o \in ops : o.id = s.id }

Running == { s \in spinners : s.timer }

(***************************************************************************)
(* The line classifier: the if-chain of the 'line' listener.               *)
(***************************************************************************)
\* a classifier that tests :url as a prefix
BranchUrlPrefix(input) ==
    IF input = ".exit" THEN "exit"
    ELSE IF StartsWith(input, ":js ") THEN "js"
    ELSE IF StartsWith(input, ":url") THEN "url"
    ELSE IF StartsWith(input, ":screenshot") THEN "screenshot"
    ELSE "agent"

Branch(input) ==
    IF input = ".exit" THEN "exit"
    ELSE IF StartsWith(input, ":js ") THEN "js"
    ELSE IF input = ":url" THEN "url"
    ELSE IF StartsWith(input, ":screenshot") THEN "screenshot"
    ELSE "agent"

\* if (processing) return
Busy(proc) == proc

\* the source text handed to the Function constructor
JsSource(code) ==
    "return (async () => { "
    \o (IF StartsWith(code, "await") \/ StartsWith(code, "return")
        THEN code ELSE "return " \o code)
    \o " })()"

\* input.split(/\s+/)[1] || `screenshot-${Date.now()}.png`
ScreenshotPath(input, now) ==
    LET tokens == SplitWs(input)
    IN  IF Len(tokens) >= 2 /\ tokens[2] # ""
        THEN tokens[2]
        ELSE "screenshot-" \o ToString(now) \o ".png"

(***************************************************************************)
(* rl.close() and the 'close' listener.                                    *)
(***************************************************************************)
\* process.exit(0)
ExitOk == 0

\* the exit code of a process that dies of an unhandled rejection
ExitUnhandled == 1

\* a 'close' listener that removes the observer after the teardown call
CloseCallsTeardownFirst == << "deleteSession", "removeListener" >>

\* the calls of the 'close' listener up to its await, in order
CloseCalls == << "removeListener", "deleteSession" >>

\* rl.close(): emits 'close' once; a closed interface ignores the call
RlClose ==
    IF rlClosed
    THEN /\ written' = << >>
         /\ UNCHANGED << main, rlClosed, listener, api >>
    ELSE /\ rlClosed' = TRUE
         /\ listener' = FALSE
         /\ api' = api \o CloseCalls
         /\ written' = << << "log", Chalk("dim", "\nClosing browser session...") >> >>
         /\ main' = "closing"

(***************************************************************************)
(* The 'line' listener up to its first await.                              *)
(***************************************************************************)
LineEmpty(id, input) ==
    /\ written' = << Prompt >>
    /\ pending' = MarkPrompted(pending)
    /\ last' = Event("line", id, "empty", TRUE, input, FALSE)
    /\ UNCHANGED << main, rlClosed, listener, processing, activeSpinner,
                    spinners, api >>

LineDropped(id, input) ==
    /\ written' = << >>
    /\ last' = Event("line", id, "dropped", TRUE, input, FALSE)
    /\ UNCHANGED << main, rlClosed, listener, processing, activeSpinner,
                    spinners, api, pending >>

LineExit(id, input) ==
    /\ RlClose
    /\ last' = Event("line", id, "exit", TRUE, input, FALSE)
    /\ UNCHANGED << processing, activeSpinner, spinners, pending >>

LineJs(id, input) ==
    LET code == Slice(input, 4)
    IN  IF code \in SyntaxErrors
        THEN \* new Function throws inside the try
             /\ written' = << << "error", Chalk("red", "SyntaxError") >>, Prompt >>
             /\ pending' = MarkPrompted(pending)
             /\ last' = Event("line", id, "js", FALSE, input, FALSE)
             /\ UNCHANGED << main, rlClosed, listener, processing,
                             activeSpinner, spinners, api >>
        ELSE /\ written' = << >>
             /\ pending' = pending \cup { Op(id, "js", JsSource(code)) }
             /\ last' = Event("line", id, "js", TRUE, input, FALSE)
             /\ UNCHANGED << main, rlClosed, listener, processing,
                             activeSpinner, spinners, api >>

\* a :url branch that takes the single-flight flag
LineUrlSetsProcessing(id, input) ==
    /\ written' = << >>
    /\ processing' = TRUE
    /\ pending' = pending \cup { Op(id, "url", "") }
    /\ last' = Event("line", id, "url", TRUE, input, FALSE)
    /\ UNCHANGED << main, rlClosed, listener, activeSpinner, spinners, api >>

LineUrl(id, input) ==
    /\ written' = << >>
    /\ pending' = pending \cup { Op(id, "url", "") }
    /\ last' = Event("line", id, "url", TRUE, input, FALSE)
    /\ UNCHANGED << main, rlClosed, listener, processing, activeSpinner,
                    spinners, api >>

LineScreenshot(id, input) ==
    \E now \in Clock :
        /\ written' = << >>
        /\ pending' = pending \cup
                { Op(id, "screenshot", ScreenshotPath(input, now)) }
        /\ last' = Event("line", id, "screenshot", TRUE, input, FALSE)
        /\ UNCHANGED << main, rlClosed, listener, processing, activeSpinner,
                    spinners, api >>

LineAgent(id, input) ==
    /\ processing' = TRUE
    /\ activeSpinner' = id
    /\ spinners' = spinners \cup { SpinnerStart(createSpinner(id), "Thinking...") }
    /\ written' = SpinnerStartWrites(createSpinner(id), "Thinking...")
    /\ pending' = pending \cup { Op(id, "agent", input) }
    /\ last' = Event("line", id, "agent", TRUE, input, FALSE)
    /\ UNCHANGED << main, rlClosed, listener, api >>

\* rl.on('line', async (line) => ...), for a line of the alphabet, at most
\* max lines in a run.  readline goes on emitting the lines it has already
\* read after rl.close(), so lines are delivered until the stream ends.
Line(alphabet, max) ==
    \E line \in alphabet :
        /\ Alive
        /\ ~stdinEnded
        /\ nLines < max
        /\ nLines' = nLines + 1
        /\ UNCHANGED << stdinEnded, exitCode, nRejections, subject, outcome >>
        /\ LET input == Trim(line)
               id    == nLines + 1
           IN  IF input = "" THEN LineEmpty(id, input)
               ELSE IF Busy(processing) THEN LineDropped(id, input)
               ELSE CASE Branch(input) = "exit" -> LineExit(id, input)
                      [] Branch(input) = "js" -> LineJs(id, input)
                      [] Branch(input) = "url" -> LineUrl(id, input)
                      [] Branch(input) = "screenshot" -> LineScreenshot(id, input)
                      [] OTHER -> LineAgent(id, input)

\* the input stream ends: readline closes the interface
InputEnd ==
    /\ Alive
    /\ ~stdinEnded
    /\ stdinEnded' = TRUE
    /\ RlClose
    /\ last' = Event("end", 0, "", TRUE, "", FALSE)
    /\ UNCHANGED << processing, activeSpinner, spinners, pending, exitCode,
                    nLines, nRejections, subject, outcome >>

(***************************************************************************)
(* The 'line' listener after its await: the awaited call has settled.      *)
(***************************************************************************)
\* a catch block that swallows the error
CatchWritesNothing(err) == << >>

\* catch (err) { console.error(chalk.red(errorMessage(err))) }
CatchWrites(err) == << << "error", Chalk("red", errorMessage(err)) >> >>

JsSettle ==
    \E op \in pending :
        /\ Alive
        /\ op.branch = "js"
        /\ \/ \E v \in JsValues :
                /\ written' = (IF v.defined THEN << << "log", v.text >> >> ELSE << >>)
                              \o << Prompt >>
                /\ last' = Event("settle", op.id, "js", TRUE, "", op.prompted)
           \/ \E err \in Errors :
                /\ written' = CatchWrites(err) \o << Prompt >>
                /\ last' = Event("settle", op.id, "js", FALSE, errorMessage(err),
                                 op.prompted)
        /\ pending' = MarkPrompted(pending \ { op })
        /\ UNCHANGED << main, rlClosed, stdinEnded, listener, processing,
                        activeSpinner, spinners, api, exitCode, nLines,
                        nRejections, subject, outcome >>

UrlSettle ==
    \E op \in pending :
        /\ Alive
        /\ op.branch = "url"
        /\ \/ \E url \in Urls :
                /\ written' = << << "log", "Current URL: " \o Chalk("cyan", url) >>,
                                 Prompt >>
                /\ last' = Event("settle", op.id, "url", TRUE, "", op.prompted)
           \/ \E err \in Errors :
                /\ written' = CatchWrites(err) \o << Prompt >>
                /\ last' = Event("settle", op.id, "url", FALSE, errorMessage(err),
                                 op.prompted)
        /\ pending' = MarkPrompted(pending \ { op })
        /\ UNCHANGED << main, rlClosed, stdinEnded, listener, processing,
                        activeSpinner, spinners, api, exitCode, nLines,
                        nRejections, subject, outcome >>

ScreenshotSettle ==
    \E op \in pending :
        /\ Alive
        /\ op.branch = "screenshot"
        /\ \/ /\ written' = << << "log", "Screenshot saved: "
                                        \o Chalk("cyan", op.arg) >>, Prompt >>
              /\ last' = Event("settle", op.id, "screenshot", TRUE, "", op.prompted)
           \/ \E err \in Errors :
                /\ written' = CatchWrites(err) \o << Prompt >>
                /\ last' = Event("settle", op.id, "screenshot", FALSE,
                                 errorMessage(err), op.prompted)
        /\ pending' = MarkPrompted(pending \ { op })
        /\ UNCHANGED << main, rlClosed, stdinEnded, listener, processing,
                        activeSpinner, spinners, api, exitCode, nLines,
                        nRejections, subject, outcome >>

\* hints chained with else: the second test runs only when the first fails
AgentHintsElseIf(message) ==
    IF Includes(message, "fetch") \/ Includes(message, "ECONNREFUSED")
       \/ Includes(message, "network")
    THEN << << "error", Chalk("yellow",
               "  Hint: Check that your LLM provider is running and accessible") >> >>
    ELSE IF Includes(message, "timed out") \/ Includes(message, "Timeout")
    THEN << << "error", Chalk("yellow",
               "  Hint: A command timed out. The page may still be loading - try again.") >> >>
    ELSE << >>

\* the hints of the agent branch's catch block
AgentHints(message) ==
    (IF Includes(message, "fetch") \/ Includes(message, "ECONNREFUSED")
        \/ Includes(message, "network")
     THEN << << "error", Chalk("yellow",
                "  Hint: Check that your LLM provider is running and accessible") >> >>
     ELSE << >>)
    \o
    (IF Includes(message, "timed out") \/ Includes(message, "Timeout")
     THEN << << "error", Chalk("yellow",
                "  Hint: A command timed out. The page may still be loading - try again.") >> >>
     ELSE << >>)

\* catch (err) { ... } of the agent branch, after spinner.stop()
AgentCatchWrites(err) ==
    << << "error", Chalk("red", "  Error: " \o errorMessage(err)) >> >>
    \o AgentHints(errorMessage(err))

\* an agent branch without the finally block
FinallyMissing(proc) == proc

\* finally { processing = false }
Finally(proc) == FALSE

\* activeSpinner = null, after spinner.stop()
ActiveAfterSettle(active) == 0

AgentSettle ==
    \E op \in pending :
        /\ Alive
        /\ op.branch = "agent"
        /\ \/ \E result \in AgentResults :
                /\ written' = SpinnerStopWrites(createSpinner(op.id))
                              \o << << "log", formatResult(result) >>, Prompt >>
                /\ last' = Event("settle", op.id, "agent", TRUE, "", op.prompted)
           \/ \E err \in AgentErrors :
                /\ written' = SpinnerStopWrites(createSpinner(op.id))
                              \o AgentCatchWrites(err) \o << Prompt >>
                /\ last' = Event("settle", op.id, "agent", FALSE, errorMessage(err),
                                 op.prompted)
        /\ activeSpinner' = ActiveAfterSettle(activeSpinner)
        /\ processing' = Finally(processing)
        /\ pending' = MarkPrompted(pending \ { op })
        /\ spinners' = Collect(StopIn(spinners, op.id), pending \ { op })
        /\ UNCHANGED << main, rlClosed, stdinEnded, listener, api, exitCode,
                        nLines, nRejections, subject, outcome >>

(***************************************************************************)
(* A rejection no promise chain handles.                                   *)
(***************************************************************************)
\* if (activeSpinner) { activeSpinner.stop(); activeSpinner = null }
StopActive(set, active) == IF active # 0 THEN StopIn(set, active) ELSE set

\* an observer that classifies the message as the agent branch's catch does
ObserverWritesAgentHints(err, active) ==
    (IF active # 0 THEN SpinnerStopWrites(createSpinner(active)) ELSE << >>)
    \o << << "error", Chalk("red", "\n  Error: " \o errorMessage(err)) >> >>
    \o AgentHints(errorMessage(err))
    \o << Prompt >>

ObserverWrites(err, active) ==
    (IF active # 0 THEN SpinnerStopWrites(createSpinner(active)) ELSE << >>)
    \o << << "error", Chalk("red", "\n  Error: " \o errorMessage(err)) >> >>
    \o (IF Includes(errorMessage(err), "timed out")
        THEN << << "error", Chalk("yellow",
                   "  Hint: A browser command timed out. The page may still be loading - try again.") >> >>
        ELSE << >>)
    \o << Prompt >>

\* const onUnhandledRejection = (err) => ...
onUnhandledRejection(err) ==
    /\ written' = ObserverWrites(err, activeSpinner)
    /\ pending' = MarkPrompted(pending)
    /\ spinners' = Collect(StopActive(spinners, activeSpinner), pending)
    /\ activeSpinner' = 0
    /\ processing' = FALSE
    /\ last' = Event("rejection", 0, "", TRUE, errorMessage(err), FALSE)
    /\ UNCHANGED << main, rlClosed, listener, api, exitCode >>

\* with no listener registered the rejection ends the process (the crash
\* the listener is there to prevent)
Unhandled(err) ==
    /\ main' = "crashed"
    /\ exitCode' = ExitUnhandled
    /\ written' = << >>
    /\ last' = Event("rejection", 0, "", FALSE, errorMessage(err), FALSE)
    /\ UNCHANGED << rlClosed, listener, processing, activeSpinner, spinners,
                    pending, api >>

BackgroundRejection ==
    \E err \in RejectionErrors :
        /\ Alive
        /\ nRejections < MaxRejections
        /\ nRejections' = nRejections + 1
        /\ IF listener THEN onUnhandledRejection(err) ELSE Unhandled(err)
        /\ UNCHANGED << stdinEnded, nLines, subject, outcome >>

(***************************************************************************)
(* handler(): initialization, entering the loop, and the end of the        *)
(* teardown call.                                                          *)
(***************************************************************************)
Banner ==
    << << "log", Chalk("bold", "\nWebdriverIO Agent REPL\n") >>,
       << "log", Chalk("dim", "  Commands:  :js <code>  :url  :screenshot <path>  .exit") >> >>

\* an initialization catch block that goes on to the hints of the agent branch
InitCatchWritesAllHints(message) ==
    (IF Includes(message, "API") \/ Includes(message, "key")
        \/ Includes(message, "token") \/ Includes(message, "auth")
     THEN << << "error", Chalk("red", "\nAgent initialization failed: " \o message) >>,
             << "error", Chalk("yellow",
                "Hint: Provide an API key via --token or the provider's env var (e.g. ANTHROPIC_API_KEY)\n") >> >>
     ELSE << << "error", Chalk("red", "\nFailed to initialize agent service: "
                                       \o message \o "\n") >> >>)
    \o AgentHints(message)

InitCatchWrites(message) ==
    IF Includes(message, "API") \/ Includes(message, "key")
       \/ Includes(message, "token") \/ Includes(message, "auth")
    THEN << << "error", Chalk("red", "\nAgent initialization failed: " \o message) >>,
            << "error", Chalk("yellow",
               "Hint: Provide an API key via --token or the provider's env var (e.g. ANTHROPIC_API_KEY)\n") >> >>
    ELSE << << "error", Chalk("red", "\nFailed to initialize agent service: "
                                      \o message \o "\n") >> >>

\* the try block ends normally
InitOk ==
    /\ main = "init"
    /\ main' = "setup"
    /\ written' = Banner
    /\ last' = Event("initOk", 0, "", TRUE, "", FALSE)
    /\ UNCHANGED << rlClosed, stdinEnded, listener, processing, activeSpinner,
                    spinners, pending, api, exitCode, nLines, nRejections, subject, outcome >>

\* the try block throws: report, tear the session down, return
InitFail ==
    \E err \in InitErrors :
        /\ main = "init"
        /\ main' = "initFailed"
        /\ written' = InitCatchWrites(errorMessage(err))
        /\ api' = Append(api, "deleteSession")
        /\ last' = Event("initFail", 0, "", FALSE, errorMessage(err), FALSE)
        /\ UNCHANGED << rlClosed, stdinEnded, listener, processing, activeSpinner,
                        spinners, pending, exitCode, nLines, nRejections, subject, outcome >>

\* process.on('unhandledRejection', onUnhandledRejection)
RegisterObserver ==
    /\ main = "setup"
    /\ main' = "registered"
    /\ listener' = TRUE
    /\ api' = Append(api, "on")
    /\ written' = << >>
    /\ last' = Event("register", 0, "", TRUE, "", FALSE)
    /\ UNCHANGED << rlClosed, stdinEnded, processing, activeSpinner, spinners,
                    pending, exitCode, nLines, nRejections, subject, outcome >>

\* the first rl.prompt(); the 'line' and 'close' listeners are attached
FirstPrompt ==
    /\ main = "registered"
    /\ main' = "open"
    /\ written' = << Prompt >>
    /\ last' = Event("firstPrompt", 0, "", TRUE, "", FALSE)
    /\ UNCHANGED << rlClosed, stdinEnded, listener, processing, activeSpinner,
                    spinners, pending, api, exitCode, nLines, nRejections, subject, outcome >>

\* await client.deleteSession() ends
TeardownSettle ==
    \/ /\ main = "closing"
       /\ \/ /\ main' = "exited"
             /\ exitCode' = ExitOk
             /\ api' = Append(api, "exit")
             /\ last' = Event("teardown", 0, "", TRUE, "", FALSE)
          \/ /\ main' = "crashed"
             /\ exitCode' = ExitUnhandled
             /\ api' = api
             /\ last' = Event("teardown", 0, "", FALSE, "", FALSE)
       /\ written' = << >>
       /\ UNCHANGED << rlClosed, stdinEnded, listener, processing, activeSpinner,
                       spinners, pending, nLines, nRejections, subject, outcome >>
    \/ /\ main = "initFailed"
       /\ \/ /\ main' = "returned"
             /\ last' = Event("teardown", 0, "", TRUE, "", FALSE)
          \/ /\ main' = "rejected"
             /\ last' = Event("teardown", 0, "", FALSE, "", FALSE)
       /\ written' = << >>
       /\ UNCHANGED << rlClosed, stdinEnded, listener, processing, activeSpinner,
                       spinners, pending, api, exitCode, nLines, nRejections, subject, outcome >>

Next ==
    \/ InitOk
    \/ InitFail
    \/ RegisterObserver
    \/ FirstPrompt
    \/ Line(Lines, MaxLines)
    \/ InputEnd
    \/ JsSettle
    \/ UrlSettle
    \/ ScreenshotSettle
    \/ AgentSettle
    \/ BackgroundRejection
    \/ TeardownSettle

Spec == Init /\ [][Next]_vars

\* the same loop fed from the wide alphabet
NextWide ==
    \/ InitOk
    \/ InitFail
    \/ RegisterObserver
    \/ FirstPrompt
    \/ Line(WideLines, MaxProbeLines)
    \/ InputEnd
    \/ JsSettle
    \/ UrlSettle
    \/ ScreenshotSettle
    \/ AgentSettle
    \/ BackgroundRejection
    \/ TeardownSettle

SpecWide == Init /\ [][NextWide]_vars

(***************************************************************************)
(* formatResult on its own: called once with any result of the bounded     *)
(* shapes.                                                                 *)
(***************************************************************************)
\* the finite sequences over S of length at most n
SeqsUpTo(S, n) == UNION { [1..k -> S] : k \in 0..n }

\* the action results a step may hold
StepResults ==
    { ActionResult(ClickSubmit, TRUE, FALSE, ""),
      ActionResult(TypeHello, FALSE, TRUE, "not found") }

\* steps as the executor numbers them: the k-th step has step = k
StepsOf(actionLists) ==
    [k \in 1..Len(actionLists) |->
        [step |-> k, actions |-> actionLists[k], done |-> k = Len(actionLists)]]

\* the legacy actions lists: the first k of these actions
LegacyList == [k \in 1..(MaxActions + 1) |-> IF k % 2 = 1 THEN TypeHello ELSE ClickSubmit]

\* AgentResult values: legacy actions, steps, goalAchieved, totalSteps
AgentRunResults ==
    { [actions |-> SubSeq(LegacyList, 1, n), steps |-> StepsOf(lists),
       goalAchieved |-> goal, totalSteps |-> Len(lists) + extra] :
        n \in 0..MaxActions,
        lists \in SeqsUpTo(SeqsUpTo(StepResults, MaxActions), MaxSteps),
        goal \in BOOLEAN,
        extra \in 0..1 }

InitFormat ==
    /\ InitLoop
    /\ subject \in AgentRunResults
    /\ outcome = NoCall

\* formatResult(result)
FormatResult ==
    /\ outcome = NoCall
    /\ outcome' = [fn |-> "formatResult", text |-> formatResult(subject)]
    /\ UNCHANGED << subject, loopVars >>

NextFormat == FormatResult

SpecFormat == InitFormat /\ [][NextFormat]_vars

(***************************************************************************)
(* formatAction and formatActionResult on their own.                       *)
(***************************************************************************)
\* action results with every combination of the optional fields: value and
\* error absent, present and empty, present and not empty
WideActionResults ==
    { ActionResult(Action(type, target, hasValue, value), success, hasError, error) :
        type \in { "click", "type" },
        target \in { "#submit", "#input" },
        hasValue \in BOOLEAN, value \in { "", "hello" },
        success \in BOOLEAN,
        hasError \in BOOLEAN, error \in { "", "not found" } }
    \ { ar \in
        { ActionResult(Action(type, target, hasValue, value), success, hasError, error) :
            type \in { "click", "type" },
            target \in { "#submit", "#input" },
            hasValue \in BOOLEAN, value \in { "", "hello" },
            success \in BOOLEAN,
            hasError \in BOOLEAN, error \in { "", "not found" } } :
        \/ ~ar.action.hasValue /\ ar.action.value # ""
        \/ ~ar.hasError /\ ar.error # "" }

InitAction ==
    /\ InitLoop
    /\ subject \in WideActionResults
    /\ outcome = NoCall

\* formatAction(ar.action)
FormatAction ==
    /\ outcome' = [fn |-> "formatAction", text |-> formatAction(subject.action)]
    /\ UNCHANGED << subject, loopVars >>

\* formatActionResult(ar)
FormatActionResult ==
    /\ outcome' = [fn |-> "formatActionResult", text |-> formatActionResult(subject)]
    /\ UNCHANGED << subject, loopVars >>

NextAction ==
    \/ FormatAction
    \/ FormatActionResult

SpecAction == InitAction /\ [][NextAction]_vars

(***************************************************************************)
(* The error reports on their own: the catch block of the agent branch and *)
(* the observer, each given any error of a family of messages.             *)
(***************************************************************************)
\* the markers the code looks for, near misses of them in another case, and
\* words that are no marker
Words ==
    { "fetch", "ECONNREFUSED", "network", "timed out", "Timeout",
      "API", "key", "token", "auth",
      "Fetch", "Network", "timeout", "Timed out",
      "connect failed", "boom" }

\* an Error whose message is two words, or a value that is no Error
HintErrors ==
    { ErrorOf(a \o ": " \o b) : a \in Words, b \in Words } \cup { NonError(404) }

InitHints ==
    /\ InitLoop
    /\ subject \in HintErrors
    /\ outcome = NoCall

\* the agent call of invocation 1 rejects with the error: the catch block,
\* the finally block and rl.prompt()
AgentCatch ==
    /\ outcome' = [fn |-> "agentCatch",
                   writes |-> SpinnerStopWrites(createSpinner(1))
                              \o AgentCatchWrites(subject) \o << Prompt >>]
    /\ UNCHANGED << subject, loopVars >>

\* onUnhandledRejection(err), with activeSpinner null or set
ObserverCatch ==
    \E active \in 0..1 :
        /\ outcome' = [fn |-> "onUnhandledRejection",
                       writes |-> ObserverWrites(subject, active)]
        /\ UNCHANGED << subject, loopVars >>

NextHints ==
    \/ AgentCatch
    \/ ObserverCatch

SpecHints == InitHints /\ [][NextHints]_vars

(***************************************************************************)
(* One spinner on its own: start, the interval callback and stop, in any   *)
(* order in which the interval is started only while none is live (the     *)
(* loop starts a spinner once, right after making it).                     *)
(***************************************************************************)
\* the texts start() may be given
SpinnerTexts == { "Thinking...", "Working", "Loading page", "" }

InitSpinner ==
    /\ InitLoop
    /\ subject = createSpinner(1)
    /\ outcome = NoCall

\* spinner.start(text)
Start ==
    \E text \in SpinnerTexts :
        /\ ~subject.timer
        /\ subject' = SpinnerStart(subject, text)
        /\ outcome' = [fn |-> "start", writes |-> SpinnerStartWrites(subject, text)]
        /\ UNCHANGED loopVars

\* the callback of setInterval fires, 80 ms after the last firing
Tick ==
    /\ subject.timer
    /\ subject' = SpinnerTick(subject)
    /\ outcome' = [fn |-> "tick", writes |-> SpinnerTickWrites(subject)]
    /\ UNCHANGED loopVars

\* spinner.stop()
Stop ==
    /\ subject' = SpinnerStop(subject)
    /\ outcome' = [fn |-> "stop", writes |-> SpinnerStopWrites(subject)]
    /\ UNCHANGED loopVars

NextSpinner ==
    \/ Start
    \/ Tick
    \/ Stop

SpecSpinner == InitSpinner /\ [][NextSpinner]_vars

(***************************************************************************)
(* The claims.                                                             *)
(***************************************************************************)
Count(seq, x) == Cardinality({ k \in 1..Len(seq) : seq[k] = x })

\* the first place of x in seq, 0 when it is not there
IndexOf(seq, x) ==
    IF \E k \in 1..Len(seq) : seq[k] = x
    THEN CHOOSE k \in 1..Len(seq) : seq[k] = x /\ \A j \in 1..(k - 1) : seq[j] # x
    ELSE 0

\* the last turn printed this text with console.log or console.error
Printed(call, text) ==
    \E k \in 1..Len(written) : written[k][1] = call /\ Includes(written[k][2], text)

\* the last turn ended by calling rl.prompt(), and called it once
EndsWithPrompt ==
    /\ Len(written) > 0
    /\ written[Len(written)] = Prompt
    /\ Count(written, Prompt) = 1

\* the loop was entered: the observer was registered
LoopEntered == Count(api, "on") > 0

\* C1: in every reachable state at most one foreground operation (:js, :url,
\* :screenshot or an agent instruction) has been accepted by the line
\* handler and has not yet completed.
C1_SingleFlight == Cardinality(pending) <= 1

\* C2: a line delivered while processing is true, whatever its content,
\* selects no branch, leaves processing true, is not queued and writes
\* nothing (no output, no prompt).
C2_LineWhileProcessing ==
    [][ (nLines' = nLines + 1 /\ processing)
        => /\ processing'
           /\ last'.branch \in { "dropped", "empty" }
           /\ pending' = pending
           /\ written' = << >> ]_vars

\* C3: accepting an agent instruction sets processing and starts one
\* spinner labelled "Thinking..."; when its call settles, on success and on
\* failure, that spinner is stopped, activeSpinner is null, processing is
\* false, the result or the error text has been printed and the turn ends
\* with the prompt.
C3_AgentLifecycle ==
    /\ (last.ev = "line" /\ last.branch = "agent")
        => /\ processing
           /\ activeSpinner = last.id
           /\ \E s \in spinners :
                /\ s.id = last.id /\ s.timer /\ s.currentText = "Thinking..."
                /\ \A t \in spinners : t.id = last.id => t = s
           /\ Len(written) = 1 /\ written[1][1] = "write"
           /\ Includes(written[1][2], "Thinking...")
    /\ (last.ev = "settle" /\ last.branch = "agent")
        => /\ ~processing
           /\ activeSpinner = 0
           /\ \A s \in spinners : s.id = last.id => ~s.timer
           /\ EndsWithPrompt
           /\ IF last.ok
              THEN \E k \in 1..(Len(written) - 1) :
                      /\ written[k][1] = "log"
                      /\ \E r \in AgentResults : written[k][2] = formatResult(r)
              ELSE \E k \in 1..(Len(written) - 1) :
                      /\ written[k][1] = "error"
                      /\ Includes(written[k][2], last.text)

C3_Witness ==
    /\ last.ev = "settle" /\ last.branch = "agent" /\ ~last.ok
    /\ nRejections > 0

\* C4: right after the observer has handled a rejection no spinner is
\* running, activeSpinner is null, processing is false, the error message
\* has been printed and the prompt re-issued.
C4_AfterRejection ==
    (last.ev = "rejection" /\ last.ok)
        => /\ Running = { }
           /\ activeSpinner = 0
           /\ ~processing
           /\ Printed("error", last.text)
           /\ EndsWithPrompt

\* C5: at most one spinner has a live interval, and activeSpinner refers to
\* it when there is one.
C5_OneIndicator ==
    /\ Cardinality(Running) <= 1
    /\ \A s \in Running : activeSpinner = s.id

\* C6 as claimed: in a run that entered the loop deleteSession is called
\* exactly once, only when the loop has terminated, and the process then
\* ends with exit code 0.
C6_TeardownOnceExitZero ==
    LoopEntered =>
        /\ Count(api, "deleteSession") = (IF rlClosed THEN 1 ELSE 0)
        /\ (main \in { "exited", "crashed" } => exitCode = 0)

\* The part of C6 the code keeps: deleteSession is called exactly once, only
\* when the loop has terminated; when that call resolves the process exits
\* with code 0, and the process ends otherwise only by dying of a rejection
\* nothing handles (the teardown's own, or a background one after the
\* observer was removed).
C6_TeardownOnce ==
    LoopEntered =>
        /\ Count(api, "deleteSession") = (IF rlClosed THEN 1 ELSE 0)
        /\ (rlClosed <=> main \in { "closing", "exited", "crashed" })
        /\ (main = "exited" => exitCode = 0 /\ api[Len(api)] = "exit")
        /\ (last.ev = "teardown" /\ last.ok => main = "exited")
        /\ (main = "crashed"
              => /\ ~listener
                 /\ ~last.ok
                 /\ last.ev \in { "teardown", "rejection" }
                 /\ exitCode # 0)
        /\ (main \in { "open", "closing" } => exitCode = -1)

\* C7: the observer is registered before the first prompt and stays
\* registered while the loop is open; it is removed exactly once, when the
\* loop terminates, before the teardown call and before the process exits.
C7_ObserverLifetime ==
    /\ (HasPrompt(written) => LoopEntered)
    /\ (main = "open" => listener /\ ~rlClosed)
    /\ (listener <=> LoopEntered /\ ~rlClosed)
    /\ Count(api, "on") <= 1
    /\ LoopEntered =>
        /\ Count(api, "removeListener") = (IF rlClosed THEN 1 ELSE 0)
        /\ (Count(api, "deleteSession") > 0
              => /\ IndexOf(api, "removeListener") > 0
                 /\ IndexOf(api, "removeListener") < IndexOf(api, "deleteSession"))
        /\ (Count(api, "exit") > 0
              => /\ IndexOf(api, "removeListener") > 0
                 /\ IndexOf(api, "removeListener") < IndexOf(api, "exit"))
        /\ (main \in { "exited", "crashed" } => Count(api, "removeListener") = 1)

C7_Witness == main = "exited" /\ Count(api, "removeListener") = 1 /\ nLines > 0

\* the last turn printed a result or an error
PrintedSomething ==
    \E k \in 1..Len(written) : written[k][1] \in { "log", "error" }

C8_State ==
    /\ (last.ev = "settle" /\ ~last.ok)
        => Printed("error", last.text) /\ EndsWithPrompt
    /\ (last.ev = "line" /\ last.branch = "js" /\ ~last.ok)
        => Printed("error", "SyntaxError") /\ EndsWithPrompt
    /\ (last.ev = "rejection" /\ last.ok)
        => Printed("error", last.text) /\ EndsWithPrompt
    /\ (main \in { "exited", "crashed" } => rlClosed)

C8_Step ==
    /\ (\/ last'.ev = "settle"
        \/ last'.ev = "rejection" /\ last'.ok
        \/ last'.ev = "line" /\ last'.branch # "exit")
        => rlClosed' = rlClosed /\ main' = main
    /\ (rlClosed' # rlClosed)
        => \/ last'.ev = "end"
           \/ /\ last'.ev = "line" /\ last'.text = ".exit"
              /\ ~processing

\* C8: a failure of an inline evaluation, a URL query, a screenshot or an
\* agent call, and a rejection the observer handles, leaves the loop as it
\* was, with the error printed and the prompt re-issued; the interface
\* closes only on an accepted .exit line or when the input stream ends.
C8_ErrorsKeepLoop == [] C8_State /\ [][ C8_Step ]_vars

\* a screenshot failed after a background rejection had been handled, and
\* the loop is open
C8_Witness ==
    /\ last.ev = "settle" /\ last.branch = "screenshot" /\ ~last.ok
    /\ nRejections > 0
    /\ main = "open"

\* C9: nothing is printed for an accepted line after a prompt that was
\* issued between its acceptance and its output.
C9_PromptAfterOutput ==
    (last.ev = "settle" /\ PrintedSomething) => ~last.prompted

\* the forms of a trimmed line, as the claim states them
NoSpaceIn(s) == \A k \in 1..Len(s) : ~IsSpace(CharAt(s, k))

AllSpaces(s) == \A k \in 1..Len(s) : IsSpace(CharAt(s, k))

HasPrefix(s, prefix, n) == Len(s) >= n /\ SubSeq(s, 1, n) = prefix

ExpectedBranch(input) ==
    CASE input = ".exit" -> "exit"
      [] input # ".exit" /\ HasPrefix(input, ":js ", 4) -> "js"
      [] input # ".exit" /\ ~HasPrefix(input, ":js ", 4) /\ input = ":url" -> "url"
      [] input # ".exit" /\ ~HasPrefix(input, ":js ", 4) /\ input # ":url"
         /\ HasPrefix(input, ":screenshot", 11) -> "screenshot"
      [] OTHER -> "agent"

\* p is the second white-space-delimited token of the trimmed line
IsSecondToken(input, p) ==
    \E i \in 2..Len(input) : \E j \in (i + 1)..Len(input) : \E k \in j..Len(input) :
        /\ NoSpaceIn(SubSeq(input, 1, i - 1))
        /\ AllSpaces(SubSeq(input, i, j - 1))
        /\ p = SubSeq(input, j, k)
        /\ NoSpaceIn(p)
        /\ (k = Len(input) \/ IsSpace(CharAt(input, k + 1)))

\* the invocations the last line left suspended
Accepted == { o \in pending : o.id = last.id }

C10_State ==
    (last.ev = "line") =>
        LET input == last.text
        IN  /\ (input # "" => ~IsSpace(CharAt(input, 1))
                              /\ ~IsSpace(CharAt(input, Len(input))))
            /\ Cardinality(Accepted) <= 1
            /\ IF input = ""
               THEN last.branch = "empty" /\ written = << Prompt >> /\ Accepted = { }
               ELSE /\ last.branch \in { "dropped", ExpectedBranch(input) }
                    /\ (last.branch \in { "dropped", "exit" } => Accepted = { })
                    /\ (last.branch = "exit" => rlClosed)
                    /\ (last.branch = "js" /\ last.ok
                          => \E o \in Accepted :
                                /\ o.branch = "js"
                                /\ Includes(o.arg, SubSeq(input, 5, Len(input))))
                    /\ (last.branch = "url"
                          => \E o \in Accepted : o.branch = "url")
                    /\ (last.branch = "screenshot"
                          => \E o \in Accepted :
                                /\ o.branch = "screenshot"
                                /\ IF NoSpaceIn(input)
                                   THEN \E now \in Clock :
                                          o.arg = "screenshot-" \o ToString(now) \o ".png"
                                   ELSE IsSecondToken(input, o.arg))
                    /\ (last.branch = "agent"
                          => /\ processing
                             /\ \E o \in Accepted :
                                  o.branch = "agent" /\ o.arg = input)

C10_Step ==
    (nLines' = nLines + 1 /\ ~processing /\ last'.text # "")
        => last'.branch = ExpectedBranch(last'.text)

\* C10: a trimmed non-empty line handled while processing is false selects
\* exactly one branch, in the order .exit, ":js " prefix (body: the text
\* after the prefix), :url, ":screenshot" prefix (path: the second token, or
\* screenshot-<epoch-ms>.png), else the agent; an empty or white-space-only
\* line selects none and only re-prompts.
C10_Classifier == [] C10_State /\ [][ C10_Step ]_vars

\* a near miss of the :url form went to the agent
C10_Witness ==
    /\ last.ev = "line" /\ last.text = ":urlx" /\ last.branch = "agent"
    /\ \E o \in pending : o.branch = "agent" /\ o.arg = ":urlx"

\* the places of the line breaks of a text
Breaks(s) == { i \in 1..Len(s) : CharAt(s, i) = "\n" }

\* String.prototype.split('\n'): the k-th line runs from the (k-1)-th line
\* break to the k-th
SplitNl(s) ==
    LET breaks == Breaks(s)
        n      == Cardinality(breaks)
        at(k)  == IF k = 0 THEN 0
                  ELSE IF k > n THEN Len(s) + 1
                  ELSE CHOOSE i \in breaks :
                          Cardinality({ j \in breaks : j < i }) = k - 1
    IN  [k \in 1..(n + 1) |-> SubSeq(s, at(k - 1) + 1, at(k) - 1)]

SuccessGlyph == Chalk("green", "v")

FailureGlyph == Chalk("red", "x")

IsHeader(line, n) == Includes(line, "Step " \o ToString(n) \o ":")

IsReport(line) == Includes(line, SuccessGlyph) \/ Includes(line, FailureGlyph)

IsSummary(line) ==
    Includes(line, "Goal achieved in") \/ Includes(line, "Goal not confirmed")

IsNoActions(line) == Includes(line, "No actions were executed")

RECURSIVE ActionsBefore(_, _)
\* the action results of the steps before step k
ActionsBefore(steps, k) ==
    IF k <= 1 THEN 0 ELSE Len(steps[k - 1].actions) + ActionsBefore(steps, k - 1)

\* the lines the steps/actions rendering is to produce, as the claim counts
\* them
BodyCount(r) ==
    IF Len(r.steps) > 0
    THEN ActionsBefore(r.steps, Len(r.steps) + 1)
         + (IF Len(r.steps) > 1 THEN Len(r.steps) ELSE 0)
    ELSE Len(r.actions)

\* C11: with steps non-empty the body is, step by step in order, a header
\* carrying the step number exactly when there is more than one step, then
\* one report line for each action result of the step in order, and the
\* legacy actions add nothing; with steps empty and actions non-empty it is
\* one line for each action in order, each with the success glyph.
C11_BodyLines ==
    (outcome.fn = "formatResult") =>
        LET r      == subject
            OutLines == SplitNl(outcome.text)
            nSteps == Len(r.steps)
            hdr    == IF nSteps > 1 THEN 1 ELSE 0
            start(k) == ActionsBefore(r.steps, k) + hdr * (k - 1)
        IN  /\ (BodyCount(r) > 0 => Len(OutLines) = BodyCount(r) + 1)
            /\ (nSteps > 0) =>
                  /\ \A k \in 1..nSteps :
                        /\ (hdr = 1) =>
                              /\ IsHeader(OutLines[start(k) + 1], r.steps[k].step)
                              /\ ~IsReport(OutLines[start(k) + 1])
                        /\ \A j \in 1..Len(r.steps[k].actions) :
                              LET line == OutLines[start(k) + hdr + j]
                              IN  /\ IsReport(line)
                                  /\ Includes(line, formatAction(r.steps[k].actions[j].action))
                  /\ (hdr = 0) =>
                        \A i \in 1..Len(OutLines) : ~Includes(OutLines[i], "Step ")
                  /\ Cardinality({ i \in 1..Len(OutLines) : IsReport(OutLines[i]) })
                        = ActionsBefore(r.steps, nSteps + 1)
            /\ (nSteps = 0 /\ Len(r.actions) > 0) =>
                  \A k \in 1..Len(r.actions) :
                      /\ Includes(OutLines[k], SuccessGlyph)
                      /\ ~Includes(OutLines[k], FailureGlyph)
                      /\ Includes(OutLines[k], formatAction(r.actions[k]))

\* two steps with action results were formatted, the legacy list being
\* non-empty as well
C11_Witness ==
    /\ outcome.fn = "formatResult"
    /\ Len(subject.steps) = 2
    /\ Len(subject.steps[1].actions) = 2
    /\ Len(subject.steps[2].actions) = 1
    /\ Len(subject.actions) > 0
    /\ Len(SplitNl(outcome.text)) = 6

\* the steps/actions rendering of r produces no line
RendersNothing(r) ==
    \/ Len(r.steps) = 0 /\ Len(r.actions) = 0
    \/ Len(r.steps) = 1 /\ Len(r.steps[1].actions) = 0

\* C12: the output ends with exactly one summary line, the "Goal achieved"
\* one exactly when goalAchieved is true and the "Goal not confirmed" one
\* otherwise, each citing totalSteps; "No actions were executed" appears
\* once, right before the summary, exactly when the rendering produced no
\* line; so there are at least 2 lines, and exactly 2 for the empty result
\* and for a single step with one action.
C12_SummaryLast ==
    (outcome.fn = "formatResult") =>
        LET r == subject
            OutLines == SplitNl(outcome.text)
            n == Len(OutLines)
            total == ToString(r.totalSteps)
        IN  /\ n >= 2
            /\ Cardinality({ i \in 1..n : IsSummary(OutLines[i]) }) = 1
            /\ IF r.goalAchieved
               THEN Includes(OutLines[n], "Goal achieved in " \o total \o " step(s)")
               ELSE Includes(OutLines[n],
                             "Goal not confirmed (" \o total \o " step(s) used)")
            /\ Cardinality({ i \in 1..n : IsNoActions(OutLines[i]) })
                  = (IF RendersNothing(r) THEN 1 ELSE 0)
            /\ (RendersNothing(r) => n = 2 /\ IsNoActions(OutLines[1]))
            /\ (Len(r.steps) = 0 /\ Len(r.actions) = 0 /\ ~r.goalAchieved
                  /\ r.totalSteps = 0 => n = 2)
            /\ (Len(r.steps) = 1 /\ Len(r.steps[1].actions) = 1 => n = 2)

\* a single step with no action result was formatted while the legacy list
\* held actions
C12_Witness ==
    /\ outcome.fn = "formatResult"
    /\ Len(subject.steps) = 1
    /\ Len(subject.steps[1].actions) = 0
    /\ Len(subject.actions) > 0
    /\ subject.goalAchieved
    /\ IsNoActions(SplitNl(outcome.text)[1])

\* the text carries the value suffix
HasValueSuffix(text, value) ==
    Includes(text, " = ") /\ Includes(text, "\"" \o value \o "\"")

\* C13: a rendered action is type "target", with the suffix = "value"
\* exactly when the value field is present, whatever string it holds; a
\* report line carries the success glyph exactly when success is true and
\* the error in parentheses exactly when success is false and an error
\* string is present.
C13_Rendering ==
    /\ (outcome.fn = "formatAction") =>
          LET a == subject.action
          IN  /\ StartsWith(outcome.text,
                            Chalk("bold", a.type) \o " "
                            \o Chalk("cyan", "\"" \o a.target \o "\""))
              /\ (HasValueSuffix(outcome.text, a.value) <=> a.hasValue)
    /\ (outcome.fn = "formatActionResult") =>
          /\ (Includes(outcome.text, SuccessGlyph) <=> subject.success)
          /\ (Includes(outcome.text, FailureGlyph) <=> ~subject.success)
          /\ (Includes(outcome.text, "(" \o subject.error \o ")")
                <=> ~subject.success /\ subject.hasError)
          /\ (HasValueSuffix(outcome.text, subject.action.value)
                <=> subject.action.hasValue)

\* the texts console.error was given, in order
ErrorTexts(w) ==
    LET errs == SelectSeq(w, LAMBDA x : x[1] = "error")
    IN  [k \in 1..Len(errs) |-> errs[k][2]]

HasConnectivityMarker(m) ==
    Includes(m, "fetch") \/ Includes(m, "ECONNREFUSED") \/ Includes(m, "network")

HasTimeoutMarker(m) == Includes(m, "timed out") \/ Includes(m, "Timeout")

HasAuthMarker(m) ==
    Includes(m, "API") \/ Includes(m, "key") \/ Includes(m, "token")
    \/ Includes(m, "auth")

IsConnectivityHint(text) == Includes(text, "Hint: Check that your LLM provider")

IsTimeoutHint(text) == Includes(text, "timed out. The page may still be loading")

IsAuthHint(text) == Includes(text, "Hint: Provide an API key")

\* the hints among the texts after the first
HintsAfterFirst(texts, IsHint(_)) ==
    Cardinality({ k \in 2..Len(texts) : IsHint(texts[k]) })

\* C14: when an agent call fails with message m the base error line,
\* holding m as it is, is printed first; the connectivity hint follows
\* exactly when m contains fetch, ECONNREFUSED or network, the timeout hint
\* exactly when m contains "timed out" or Timeout, both when both apply, and
\* the API-key hint never.
C14_AgentHints ==
    (outcome.fn = "agentCatch") =>
        LET m     == errorMessage(subject)
            texts == ErrorTexts(outcome.writes)
            conn  == IF HasConnectivityMarker(m) THEN 1 ELSE 0
            time  == IF HasTimeoutMarker(m) THEN 1 ELSE 0
        IN  /\ Len(texts) = 1 + conn + time
            /\ Includes(texts[1], "Error: " \o m)
            /\ HintsAfterFirst(texts, IsConnectivityHint) = conn
            /\ HintsAfterFirst(texts, IsTimeoutHint) = time
            /\ \A k \in 1..Len(texts) : ~IsAuthHint(texts[k])
            /\ (conn = 1 /\ time = 1
                  => IsConnectivityHint(texts[2]) /\ IsTimeoutHint(texts[3]))
            /\ (m = "ECONNREFUSED: connect failed"
                  => Len(texts) = 2 /\ IsConnectivityHint(texts[2]))

\* an agent call failed with a message that holds a connectivity marker and
\* a timeout marker
C14_Witness ==
    /\ outcome.fn = "agentCatch"
    /\ errorMessage(subject) = "fetch: timed out"
    /\ Len(ErrorTexts(outcome.writes)) = 3

InitFailed == main \in { "initFailed", "returned", "rejected" }

C16_State ==
    /\ InitFailed =>
          /\ api = << "deleteSession" >>
          /\ ~listener
          /\ ~rlClosed
          /\ nLines = 0
          /\ pending = { }
          /\ ~HasPrompt(written)
          /\ last.ev \in { "initFail", "teardown" }
    /\ (last.ev = "initFail") =>
          LET m     == last.text
              texts == ErrorTexts(written)
              auth  == IF HasAuthMarker(m) THEN 1 ELSE 0
          IN  /\ main = "initFailed"
              /\ Len(texts) = 1 + auth
              /\ Includes(texts[1], m)
              /\ Cardinality({ k \in 1..Len(texts) : IsAuthHint(texts[k]) }) = auth
              /\ \A k \in 1..Len(texts) :
                    ~IsConnectivityHint(texts[k]) /\ ~IsTimeoutHint(texts[k])

C16_Step ==
    /\ (InitFailed => InitFailed')
    /\ (main = "init" /\ InitFailed' => written = << >> /\ api = << >>)
    /\ (main' = "returned" => main = "initFailed")

\* C16: when the initialization fails with message m the loop is never
\* entered: no prompt, no observer, no line, and deleteSession called exactly
\* once before handler() returns; the API-key hint is printed exactly when m
\* contains API, key, token or auth, and neither the connectivity nor the
\* timeout hint is printed, whatever else m contains.
C16_InitFailure == [] C16_State /\ [][ C16_Step ]_vars

\* the initialization failed with a message that holds auth and "timed out"
C16_Witness ==
    /\ last.ev = "initFail"
    /\ last.text = "auth timed out"
    /\ Len(written) = 2

\* C17: stop() on a spinner that is not running (never started, or stopped
\* already) changes nothing of the spinner and writes nothing to the
\* terminal; stop() on a running spinner cancels the interval, so that no
\* frame is rendered after it.
C17_StopNoOp ==
    [][ /\ (outcome'.fn = "stop" /\ ~subject.timer)
            => subject' = subject /\ outcome'.writes = << >>
        /\ (outcome'.fn = "stop") => ~subject'.timer
        /\ (outcome'.fn = "tick") => subject.timer ]_vars

\* the agent calls in flight
AgentCalls == { o \in pending : o.branch = "agent" }

\* C18: from the acceptance of an agent instruction to the settling of its
\* call no other line is accepted, so at most one agent call is in flight,
\* whatever rejections the observer handles in between.
C18_OneAgentCall ==
    /\ [] (Cardinality(AgentCalls) <= 1)
    /\ [][ (nLines' = nLines + 1 /\ AgentCalls # { })
            => /\ last'.branch \in { "empty", "dropped" }
               /\ Cardinality(pending') = Cardinality(pending)
               /\ rlClosed' = rlClosed ]_vars

Inline == { "js", "url", "screenshot" }

C19_State ==
    /\ (last.ev = "settle" /\ last.branch \in Inline) => EndsWithPrompt
    /\ (last.ev = "line" /\ last.branch \in Inline) =>
          IF last.ok
          THEN /\ written = << >>
               /\ \E o \in pending : o.id = last.id /\ o.branch = last.branch
          ELSE /\ EndsWithPrompt
               /\ \A o \in pending : o.id # last.id

C19_Step ==
    (\/ nLines' = nLines + 1 /\ last'.branch \in Inline
     \/ /\ last'.ev = "settle" /\ last'.branch \in Inline
        /\ Cardinality(pending') < Cardinality(pending))
    => /\ processing' = processing
       /\ activeSpinner' = activeSpinner
       /\ spinners' = spinners

\* C19: the :js, :url and :screenshot branches leave processing and
\* activeSpinner as they are and start no spinner, at their acceptance and at
\* their completion; each calls rl.prompt() once, after its awaited call has
\* settled and not before, on success and on failure.
C19_InlineFrame == [] C19_State /\ [][ C19_Step ]_vars

\* a screenshot failed while an agent call was in flight with its spinner
\* running
C19_Witness ==
    /\ last.ev = "settle" /\ last.branch = "screenshot" /\ ~last.ok
    /\ processing
    /\ activeSpinner # 0
    /\ Running # { }

\* C20: a .exit line delivered while processing is true is dropped: it
\* closes nothing, leaves the observer registered and calls no teardown;
\* while an agent call is in flight only the end of the input stream
\* terminates the loop, and .exit works only when delivered with processing
\* false.
C20_ExitWhileBusy ==
    [][ /\ (nLines' = nLines + 1 /\ processing /\ last'.text = ".exit")
            => /\ last'.branch = "dropped"
               /\ rlClosed' = rlClosed
               /\ listener' = listener
               /\ api' = api
        /\ (rlClosed' /\ ~rlClosed /\ last'.ev = "line")
            => ~processing /\ last'.text = ".exit"
        /\ (rlClosed' /\ ~rlClosed /\ AgentCalls # { })
            => last'.ev = "end" ]_vars

====
